---- MODULE Spec2Model ----
(***************************************************************************)
(* Model of src/synth.py: class Instrument, the voice registries           *)
(* (pressed_keys / releasing_keys), the key handlers key_press and         *)
(* key_release, and one iteration of the render loop of emit_sound.        *)
(*                                                                         *)
(* Number representation (the source computes in Python floats; the model  *)
(* computes the same quantities exactly, as integers over a fixed unit):   *)
(*   - an envelope amplitude  amp  stands for amp / n_attack_samples, so   *)
(*     amplitude 1 is n_attack_samples (AmpOne) and the per-buffer change  *)
(*     chunk_size / n_attack_samples is chunk_size;                        *)
(*   - time_offset is counted in samples: time_offset / sample_rate s, so  *)
(*     buffer_time_lapse is chunk_size and 360 s is 360 * sample_rate;     *)
(*   - base frequencies are in 1/100 Hz, octave stands for                 *)
(*     octave / OctUnit, a fundamental for fundamental / (100 * OctUnit).  *)
(***************************************************************************)
EXTENDS Integers, FiniteSets, Sequences, TLC

\* ---------------------------------------------------------------- bounds
\* at most this many octave-control events (key_press or key_release of
\* "z" or "x") are delivered, so octave stays within 2^-n .. 2^n
MaxOctaveShifts == 2
\* the per-voice count of render ticks since key_press saturates here
MaxHeldTicks == 3
\* at most this many notes are started while the two threads are interleaved
MaxVoices == 2

\* ------------------------------------------------------------- constants
\* wrap threshold of the time offset, in seconds
WrapSeconds == 360

RECURSIVE Pow2(_)
Pow2(n) == IF n = 0 THEN 1 ELSE 2 * Pow2(n - 1)

\* octave = OctUnit stands for the multiplier 1
OctUnit == Pow2(MaxOctaveShifts)

\* the value Python's None stands for in a frequency position
None == -1

\* key symbols delivered by the input collaborator: two notes, the two
\* octave controls, and one symbol outside the layout
Keys == {"a", "h", "z", "x", "q"}

\* configurations the constructor is given:
\* <<attack (s), release (s), sample_rate (Hz), chunk_size (samples)>>
Configs ==
    { <<200, 150, 1, 300>>,    \* attack shorter than one buffer
      <<400, 150, 1, 360>>,    \* attack ends inside the second buffer
      <<100, 150, 2, 200>>,    \* attack is exactly one buffer
      <<  0, 150, 1, 300>>,    \* zero attack
      <<200,   0, 1, 300>>,    \* zero release
      <<  0,   0, 2, 300>> }   \* both zero

VARIABLES
    attack,             \* self.attack
    release,            \* self.release
    sample_rate,        \* self.sample_rate
    chunk_size,         \* self.chunk_size
    n_attack_samples,   \* self.n_attack_samples
    n_release_samples,  \* self.n_release_samples
    time_offset,        \* self.time_offset (in samples)
    pressed_keys,       \* self.pressed_keys : key -> Note
    releasing_keys,     \* self.releasing_keys : key -> Note
    octave,             \* self.octave (times OctUnit)
    octave_shifts,      \* octave-control events delivered so far
    last,               \* the latest call: [op, key, err]
    written,            \* what the latest step handed to stream.write
    held_ticks,         \* per attacking voice: render ticks since key_press
    was_empty,          \* both registries were empty since the last rendered tick
    idle_seen,          \* an idle loop iteration ran since the last rendered tick
    args,               \* the arguments Instrument(...) was called with
    input_open,         \* the keyboard listener is still delivering events
    rpc,                \* where the render thread is inside emit_sound
    todo,               \* keys of list(...) the running pass has yet to visit
    chunk,              \* contributions summed into the chunk of the running tick
    krel,               \* key whose key_release is between line 164 and line 165
    pid,                \* per attacking voice: the note (key_press) it belongs to
    rid,                \* per releasing voice: the note (key_press) it belongs to
    next_id             \* notes started so far

cfgvars == <<attack, release, sample_rate, chunk_size, n_attack_samples, n_release_samples>>
vars == <<attack, release, sample_rate, chunk_size, n_attack_samples, n_release_samples,
          time_offset, pressed_keys, releasing_keys, octave, octave_shifts, last, written,
          held_ticks, was_empty, idle_seen, args, input_open,
          rpc, todo, chunk, krel, pid, rid, next_id>>

\* the variables no call on a constructed Instrument changes
\* the state of the two threads inside their calls, and the note identities
threads == <<rpc, todo, chunk, krel, pid, rid, next_id>>
aux == <<args, input_open, threads>>

\* class Note
Note(fundamental, amp) == [fundamental |-> fundamental, amp |-> amp]

\* amplitude 1 in the model's unit
AmpOne == n_attack_samples

\* Python truthiness of a frequency value
Truthy(v) == v # None /\ v # 0

\* d[key] = v on a dict
DictSet(d, key, v) == [k \in (DOMAIN d) \cup {key} |-> IF k = key THEN v ELSE d[k]]

\* del d[key]
DictDel(d, key) == [k \in (DOMAIN d) \ {key} |-> d[k]]

EmptyDict == [k \in {} |-> 0]

\* "not d" for both registries
BothEmpty(p, r) == DOMAIN p = {} /\ DOMAIN r = {}

\* the static key table of _key_to_freq, in 1/100 Hz
NoteTable ==
    [k \in {"a", "w", "s", "e", "d", "f", "t", "g", "y", "h", "u", "j", "k", "o", "l", "p", "n~"} |->
        CASE k = "a" -> 26163
          [] k = "w" -> 27718
          [] k = "s" -> 29366
          [] k = "e" -> 31113
          [] k = "d" -> 32963
          [] k = "f" -> 34923
          [] k = "t" -> 36999
          [] k = "g" -> 39200
          [] k = "y" -> 41530
          [] k = "h" -> 44000
          [] k = "u" -> 46616
          [] k = "j" -> 49388
          [] k = "k" -> 52325
          [] k = "o" -> 55437
          [] k = "l" -> 58733
          [] k = "p" -> 62225
          [] k = "n~" -> 65925]

\* _key_to_freq: the value returned and self.octave after the call
key_to_freq(in_key) ==
    IF in_key = "z" THEN [ret |-> None, octave |-> octave \div 2]
    ELSE IF in_key = "x" THEN [ret |-> None, octave |-> octave * 2]
    ELSE IF in_key \in DOMAIN NoteTable THEN [ret |-> NoteTable[in_key], octave |-> octave]
    ELSE [ret |-> None, octave |-> octave]

\* in_key is an octave-control symbol
IsControl(in_key) == in_key \in {"z", "x"}

\* the input collaborator delivers a bounded number of octave-control events
ShiftAllowed(in_key) ==
    /\ IsControl(in_key) => octave_shifts < MaxOctaveShifts
    /\ octave_shifts' = IF IsControl(in_key) THEN octave_shifts + 1 ELSE octave_shifts

\* a bug variant of AttackAdvance: the raised amplitude is not clamped to 1
AttackAdvance_unclamped(note) ==
    IF note.amp < AmpOne THEN [note EXCEPT !.amp = note.amp + chunk_size] ELSE note

\* one attacking voice through one buffer of _generate_pressed_sound
AttackAdvance(note) ==
    IF note.amp < AmpOne
    THEN LET amp_end == note.amp + chunk_size
         IN  [note EXCEPT !.amp = IF amp_end >= AmpOne THEN AmpOne ELSE amp_end]
    ELSE note

\* the gain ramp _generate_pressed_sound applies to one voice: <<start, end>>
AttackRamp(note) ==
    IF note.amp < AmpOne THEN <<note.amp, note.amp + chunk_size>> ELSE <<AmpOne, AmpOne>>

\* a bug variant of ReleaseAdvance: the voice is retuned to the octave in force
ReleaseAdvance_retuned(note) ==
    Note((note.fundamental * octave) \div OctUnit, note.amp - chunk_size)

\* one releasing voice with amp > 0 through one buffer of _generate_releasing_sound
ReleaseAdvance(note) == [note EXCEPT !.amp = note.amp - chunk_size]

ReleaseRamp(note) == <<note.amp, note.amp - chunk_size>>

\* _generate_pressed_sound: the registry after the pass
generate_pressed_sound(p) == [k \in DOMAIN p |-> AttackAdvance(p[k])]

\* a bug variant of generate_releasing_sound: a silent voice is never deleted
generate_releasing_sound_undeleted(r) ==
    [k \in DOMAIN r |-> IF r[k].amp > 0 THEN ReleaseAdvance(r[k]) ELSE r[k]]

\* _generate_releasing_sound: the registry after the pass
generate_releasing_sound(r) ==
    [k \in {j \in DOMAIN r : r[j].amp > 0} |-> ReleaseAdvance(r[k])]

\* a bug variant of Contributions: every buffer starts its time base at 0
Contributions_restart(p, r, t0) ==
    {[key |-> k, reg |-> "pressed", fundamental |-> p[k].fundamental,
      t0 |-> 0, ramp |-> AttackRamp(p[k])] : k \in DOMAIN p}
    \cup
    {[key |-> k, reg |-> "releasing", fundamental |-> r[k].fundamental,
      t0 |-> 0, ramp |-> ReleaseRamp(r[k])] : k \in {j \in DOMAIN r : r[j].amp > 0}}

\* the per-voice contributions summed into the chunk of one rendered tick
Contributions(p, r, t0) ==
    {[key |-> k, reg |-> "pressed", fundamental |-> p[k].fundamental,
      t0 |-> t0, ramp |-> AttackRamp(p[k])] : k \in DOMAIN p}
    \cup
    {[key |-> k, reg |-> "releasing", fundamental |-> r[k].fundamental,
      t0 |-> t0, ramp |-> ReleaseRamp(r[k])] : k \in {j \in DOMAIN r : r[j].amp > 0}}

NoWrite == {[key |-> "", reg |-> "none", fundamental |-> 0, t0 |-> 0, ramp |-> <<0, 0>>]}

Bump(n) == IF n < MaxHeldTicks THEN n + 1 ELSE MaxHeldTicks

\* a bug variant of NewVoice: the voice starts at full amplitude
NewVoice_full(fundamental) == Note(fundamental, AmpOne)

\* the voice key_press stores: self.Note(fundamental=fundamental, amp=0)
NewVoice(fundamental) == Note(fundamental, 0)

\* a bug variant of ReleasedVoice: the release starts from full amplitude
ReleasedVoice_full(note) == Note(note.fundamental, AmpOne)

\* the voice key_release stores: a copy of the attacking voice
ReleasedVoice(note) == Note(note.fundamental, note.amp)

\* a bug variant of PressedAfterRelease: the attacking voice is kept
PressedAfterRelease_kept(in_key) == pressed_keys

\* del self.pressed_keys[in_key] in key_release
PressedAfterRelease(in_key) == DictDel(pressed_keys, in_key)

\* arguments Instrument(...) is called with; amps_given is FALSE for amps=None
\* (durations in s, rate in Hz, buffer length in samples)
CtorArgs ==
    [harmonics : {<<1>>, <<1, 2>>},
     amps_given : BOOLEAN,
     amps : {<<1>>, <<1, 1>>},
     attack : {-1, 0, 2},
     release : {-1, 0, 3},
     sample_rate : {-1, 0, 2},
     chunk_size : {-1, 0, 4}]

\* the exception Instrument.__init__ raises for the arguments a, or "none":
\* len(amps) of None, chunk_size/sample_rate, np.linspace(0, lapse, chunk_size)
init_error(a) ==
    IF ~a.amps_given THEN "TypeError"
    ELSE IF a.sample_rate = 0 THEN "ZeroDivisionError"
    ELSE IF a.chunk_size < 0 THEN "ValueError"
    ELSE "none"

\* Instrument.__init__
Init ==
    /\ \E c \in Configs :
          /\ attack = c[1]
          /\ release = c[2]
          /\ sample_rate = c[3]
          /\ chunk_size = c[4]
    /\ n_release_samples = release * sample_rate
    /\ n_attack_samples =
          IF n_release_samples = 0 THEN 1
          ELSE IF attack * sample_rate = 0 THEN 1
          ELSE attack * sample_rate
    /\ time_offset = 0
    /\ pressed_keys = EmptyDict
    /\ releasing_keys = EmptyDict
    /\ octave = OctUnit
    /\ octave_shifts = 0
    /\ last = [op |-> "init", key |-> "", err |-> "none"]
    /\ written = NoWrite
    /\ held_ticks = EmptyDict
    /\ was_empty = TRUE
    /\ idle_seen = FALSE
    /\ args = [harmonics |-> <<1>>, amps_given |-> TRUE, amps |-> <<1>>,
               attack |-> attack, release |-> release,
               sample_rate |-> sample_rate, chunk_size |-> chunk_size]
    /\ input_open = TRUE
    /\ rpc = "check" /\ todo = {} /\ chunk = {} /\ krel = ""
    /\ pid = EmptyDict /\ rid = EmptyDict /\ next_id = 0

\* Instrument.key_press
key_press(in_key) ==
    LET r == key_to_freq(in_key) IN
    /\ ShiftAllowed(in_key)
    /\ octave' = r.octave
    /\ IF r.ret = None
       THEN \* self.octave * None raises TypeError
            /\ last' = [op |-> "key_press", key |-> in_key, err |-> "TypeError"]
            /\ UNCHANGED pressed_keys
       ELSE LET fundamental == octave * r.ret IN
            /\ last' = [op |-> "key_press", key |-> in_key, err |-> "none"]
            /\ IF Truthy(fundamental)
               THEN pressed_keys' = DictSet(pressed_keys, in_key, NewVoice(fundamental))
               ELSE UNCHANGED pressed_keys
    /\ written' = NoWrite
    /\ UNCHANGED <<cfgvars, time_offset, releasing_keys, aux>>

\* Instrument.key_release
key_release(in_key) ==
    LET r == key_to_freq(in_key) IN
    /\ ShiftAllowed(in_key)
    /\ octave' = r.octave
    /\ IF Truthy(r.ret)
       THEN IF in_key \in DOMAIN pressed_keys
            THEN /\ releasing_keys' = DictSet(releasing_keys, in_key,
                        ReleasedVoice(pressed_keys[in_key]))
                 /\ pressed_keys' = PressedAfterRelease(in_key)
                 /\ last' = [op |-> "key_release", key |-> in_key, err |-> "none"]
            ELSE \* self.pressed_keys[in_key] raises KeyError
                 /\ last' = [op |-> "key_release", key |-> in_key, err |-> "KeyError"]
                 /\ UNCHANGED <<pressed_keys, releasing_keys>>
       ELSE /\ last' = [op |-> "key_release", key |-> in_key, err |-> "none"]
            /\ UNCHANGED <<pressed_keys, releasing_keys>>
    /\ written' = NoWrite
    /\ UNCHANGED <<cfgvars, time_offset, aux>>

\* a bug variant of emit_sound_idle: the offset is not reset
emit_sound_idle_keeps_offset ==
    /\ BothEmpty(pressed_keys, releasing_keys)
    /\ last' = [op |-> "idle", key |-> "", err |-> "none"]
    /\ written' = NoWrite
    /\ UNCHANGED <<cfgvars, time_offset, pressed_keys, releasing_keys, octave, octave_shifts, aux>>

\* one iteration of the loop of emit_sound that finds both registries empty
emit_sound_idle ==
    /\ BothEmpty(pressed_keys, releasing_keys)
    /\ time_offset' = 0
    /\ last' = [op |-> "idle", key |-> "", err |-> "none"]
    /\ written' = NoWrite
    /\ UNCHANGED <<cfgvars, pressed_keys, releasing_keys, octave, octave_shifts, aux>>

\* a bug variant of OffsetAfterRender: the offset restarts on reaching 360 s
OffsetAfterRender_early ==
    LET t == time_offset + chunk_size
    IN  IF t >= WrapSeconds * sample_rate THEN 0 ELSE t

\* self.time_offset += self.buffer_time_lapse; restart above 360 s
OffsetAfterRender ==
    LET t == time_offset + chunk_size
    IN  IF t > WrapSeconds * sample_rate THEN 0 ELSE t

\* one iteration of the loop of emit_sound that renders a chunk
emit_sound_render ==
    /\ ~BothEmpty(pressed_keys, releasing_keys)
    /\ pressed_keys' = generate_pressed_sound(pressed_keys)
    /\ releasing_keys' = generate_releasing_sound(releasing_keys)
    /\ written' = Contributions(pressed_keys, releasing_keys, time_offset)
    /\ time_offset' = OffsetAfterRender
    /\ last' = [op |-> "render", key |-> "", err |-> "none"]
    /\ UNCHANGED <<cfgvars, octave, octave_shifts, aux>>

\* the history variables (they are no fields of Instrument)
history == <<held_ticks, was_empty, idle_seen>>

\* the program alone: the history variables are not tracked
Next ==
    \/ \E in_key \in Keys : key_press(in_key) /\ UNCHANGED history
    \/ \E in_key \in Keys : key_release(in_key) /\ UNCHANGED history
    \/ emit_sound_idle /\ UNCHANGED history
    \/ emit_sound_render /\ UNCHANGED history

Spec == Init /\ [][Next]_vars

\* held_ticks after a step: 0 for a voice key_press has just (re)created,
\* one more for a voice that went through a rendered tick
HeldAfterKey(in_key) ==
    [k \in DOMAIN pressed_keys' |->
        IF k = in_key /\ last'.op = "key_press" THEN 0 ELSE held_ticks[k]]

\* the program with the ticks each attacking voice has been through
NextHeld ==
    \/ \E in_key \in Keys :
          key_press(in_key) /\ held_ticks' = HeldAfterKey(in_key) /\ UNCHANGED <<was_empty, idle_seen>>
    \/ \E in_key \in Keys :
          key_release(in_key) /\ held_ticks' = HeldAfterKey(in_key) /\ UNCHANGED <<was_empty, idle_seen>>
    \/ emit_sound_idle /\ UNCHANGED history
    \/ /\ emit_sound_render
       /\ held_ticks' = [k \in DOMAIN held_ticks |-> Bump(held_ticks[k])]
       /\ UNCHANGED <<was_empty, idle_seen>>

SpecHeld == Init /\ [][NextHeld]_vars

\* the program with what happened since the last rendered tick
NextIdle ==
    \/ \E in_key \in Keys :
          /\ key_press(in_key)
          /\ was_empty' = (was_empty \/ BothEmpty(pressed_keys', releasing_keys'))
          /\ UNCHANGED <<held_ticks, idle_seen>>
    \/ \E in_key \in Keys :
          /\ key_release(in_key)
          /\ was_empty' = (was_empty \/ BothEmpty(pressed_keys', releasing_keys'))
          /\ UNCHANGED <<held_ticks, idle_seen>>
    \/ emit_sound_idle /\ idle_seen' = TRUE /\ UNCHANGED <<held_ticks, was_empty>>
    \/ /\ emit_sound_render
       /\ was_empty' = BothEmpty(pressed_keys', releasing_keys')
       /\ idle_seen' = FALSE
       /\ UNCHANGED held_ticks

SpecIdle == Init /\ [][NextIdle]_vars

\* the note symbols of Keys
NoteKeys == {k \in Keys : k \in DOMAIN NoteTable}

\* on_press returns False on ctrl: the listener stops, no further key event
\* is delivered
stop_input ==
    /\ input_open
    /\ input_open' = FALSE
    /\ last' = [op |-> "stop_input", key |-> "", err |-> "none"]
    /\ UNCHANGED <<cfgvars, time_offset, pressed_keys, releasing_keys, octave,
                   octave_shifts, written, args, threads>>

\* one iteration of the loop of emit_sound
emit_sound_iteration == (emit_sound_idle \/ emit_sound_render) /\ UNCHANGED history

\* the program with a listener that may stop, note symbols only
NextLive ==
    \/ \E in_key \in NoteKeys : input_open /\ key_press(in_key) /\ UNCHANGED history
    \/ \E in_key \in NoteKeys : input_open /\ key_release(in_key) /\ UNCHANGED history
    \/ stop_input /\ UNCHANGED history
    \/ emit_sound_iteration

\* emit_sound loops forever (while True): it always gets its next iteration
SpecLive == Init /\ [][NextLive]_vars /\ WF_vars(emit_sound_iteration)

\* ------------------------------------------------ the two threads interleaved
\* The listener thread runs on_press / on_release, the main thread runs
\* emit_sound; a step is what one thread does between two points where the
\* other can run: one statement of key_release, one key of a render pass.

\* what the thread-level steps leave alone
fixed == <<cfgvars, octave, octave_shifts, history, args, input_open>>

\* the contribution of one voice to the running chunk, tagged with its note
Contribution(key, reg, note, ramp, id) ==
    [key |-> key, reg |-> reg, fundamental |-> note.fundamental,
     t0 |-> time_offset, ramp |-> ramp, id |-> id]

\* a bug variant of AfterKeyError: the KeyError leaves the pass and the loop
AfterKeyError_raised(pc) == "aborted"

\* except KeyError: pass -- the pass goes on with its next key
AfterKeyError(pc) == pc

\* key_press on the listener thread (lines 157-159 are one store)
listener_key_press(in_key) ==
    LET fundamental == octave * key_to_freq(in_key).ret IN
    /\ krel = ""
    /\ next_id < MaxVoices
    /\ pressed_keys' = DictSet(pressed_keys, in_key, NewVoice(fundamental))
    /\ pid' = DictSet(pid, in_key, next_id)
    /\ next_id' = next_id + 1
    /\ last' = [op |-> "key_press", key |-> in_key, err |-> "none"]
    /\ UNCHANGED <<fixed, time_offset, releasing_keys, written, rpc, todo, chunk, krel, rid>>

\* key_release up to and including line 164: the attacking voice is copied
\* into releasing_keys, or the lookup raises KeyError
listener_key_release_copy(in_key) ==
    /\ krel = ""
    /\ IF in_key \in DOMAIN pressed_keys
       THEN /\ releasing_keys' = DictSet(releasing_keys, in_key,
                   ReleasedVoice(pressed_keys[in_key]))
            /\ rid' = DictSet(rid, in_key, pid[in_key])
            /\ krel' = in_key
            /\ last' = [op |-> "key_release", key |-> in_key, err |-> "none"]
       ELSE /\ last' = [op |-> "key_release", key |-> in_key, err |-> "KeyError"]
            /\ UNCHANGED <<releasing_keys, rid, krel>>
    /\ UNCHANGED <<fixed, time_offset, pressed_keys, written, rpc, todo, chunk, pid, next_id>>

\* key_release line 165: del self.pressed_keys[in_key]
listener_key_release_del ==
    /\ krel # ""
    /\ pressed_keys' = PressedAfterRelease(krel)
    /\ pid' = DictDel(pid, krel)
    /\ krel' = ""
    /\ last' = [op |-> "key_release_del", key |-> krel, err |-> "none"]
    /\ UNCHANGED <<fixed, time_offset, releasing_keys, written, rpc, todo, chunk, rid, next_id>>

\* emit_sound line 171 finds both registries empty
render_idle ==
    /\ rpc = "check"
    /\ BothEmpty(pressed_keys, releasing_keys)
    /\ time_offset' = 0
    /\ last' = [op |-> "idle", key |-> "", err |-> "none"]
    /\ UNCHANGED <<fixed, pressed_keys, releasing_keys, written, threads>>

\* emit_sound line 171 finds a voice; _generate_pressed_sound takes
\* list(self.pressed_keys)
render_check ==
    /\ rpc = "check"
    /\ ~BothEmpty(pressed_keys, releasing_keys)
    /\ rpc' = "pressed"
    /\ todo' = DOMAIN pressed_keys
    /\ chunk' = {}
    /\ last' = [op |-> "render_check", key |-> "", err |-> "none"]
    /\ UNCHANGED <<fixed, time_offset, pressed_keys, releasing_keys, written, krel, pid, rid, next_id>>

\* one key of the loop of _generate_pressed_sound
render_pressed_key(key) ==
    /\ rpc = "pressed"
    /\ key \in todo
    /\ todo' = todo \ {key}
    /\ IF key \in DOMAIN pressed_keys
       THEN LET note == pressed_keys[key] IN
            /\ chunk' = chunk \cup {Contribution(key, "pressed", note, AttackRamp(note), pid[key])}
            /\ pressed_keys' = DictSet(pressed_keys, key, AttackAdvance(note))
            /\ rpc' = rpc
            /\ last' = [op |-> "render_pressed", key |-> key, err |-> "none"]
       ELSE /\ rpc' = AfterKeyError(rpc)
            /\ last' = [op |-> "render_pressed", key |-> key, err |-> "KeyError"]
            /\ UNCHANGED <<chunk, pressed_keys>>
    /\ UNCHANGED <<fixed, time_offset, releasing_keys, written, krel, pid, rid, next_id>>

\* _generate_pressed_sound returns; _generate_releasing_sound takes
\* list(self.releasing_keys)
render_pressed_done ==
    /\ rpc = "pressed"
    /\ todo = {}
    /\ rpc' = "releasing"
    /\ todo' = DOMAIN releasing_keys
    /\ last' = [op |-> "render_pressed_done", key |-> "", err |-> "none"]
    /\ UNCHANGED <<fixed, time_offset, pressed_keys, releasing_keys, written, chunk, krel, pid, rid, next_id>>

\* one key of the loop of _generate_releasing_sound
render_releasing_key(key) ==
    /\ rpc = "releasing"
    /\ key \in todo
    /\ todo' = todo \ {key}
    /\ IF key \in DOMAIN releasing_keys
       THEN LET note == releasing_keys[key] IN
            /\ rpc' = rpc
            /\ last' = [op |-> "render_releasing", key |-> key, err |-> "none"]
            /\ IF note.amp > 0
               THEN /\ chunk' = chunk \cup {Contribution(key, "releasing", note, ReleaseRamp(note), rid[key])}
                    /\ releasing_keys' = DictSet(releasing_keys, key, ReleaseAdvance(note))
                    /\ UNCHANGED rid
               ELSE /\ releasing_keys' = DictDel(releasing_keys, key)
                    /\ rid' = DictDel(rid, key)
                    /\ UNCHANGED chunk
       ELSE /\ rpc' = AfterKeyError(rpc)
            /\ last' = [op |-> "render_releasing", key |-> key, err |-> "KeyError"]
            /\ UNCHANGED <<chunk, releasing_keys, rid>>
    /\ UNCHANGED <<fixed, time_offset, pressed_keys, written, krel, pid, next_id>>

\* _generate_releasing_sound returns; lines 177-181 advance the offset and
\* write the chunk
render_releasing_done ==
    /\ rpc = "releasing"
    /\ todo = {}
    /\ rpc' = "check"
    /\ time_offset' = OffsetAfterRender
    /\ written' = {[key |-> c.key, reg |-> c.reg, fundamental |-> c.fundamental,
                    t0 |-> c.t0, ramp |-> c.ramp] : c \in chunk}
    /\ last' = [op |-> "render", key |-> "", err |-> "none"]
    /\ UNCHANGED <<fixed, pressed_keys, releasing_keys, todo, chunk, krel, pid, rid, next_id>>

NextThreads ==
    \/ \E in_key \in NoteKeys : listener_key_press(in_key)
    \/ \E in_key \in NoteKeys : listener_key_release_copy(in_key)
    \/ listener_key_release_del
    \/ render_idle
    \/ render_check
    \/ \E key \in NoteKeys : render_pressed_key(key)
    \/ render_pressed_done
    \/ \E key \in NoteKeys : render_releasing_key(key)
    \/ render_releasing_done

SpecThreads == Init /\ [][NextThreads]_vars

\* before Instrument(...) is called: only the arguments exist
InitCtor ==
    /\ args \in CtorArgs
    /\ attack = 0 /\ release = 0 /\ sample_rate = 0 /\ chunk_size = 0
    /\ n_attack_samples = 0 /\ n_release_samples = 0
    /\ time_offset = 0
    /\ pressed_keys = EmptyDict
    /\ releasing_keys = EmptyDict
    /\ octave = 0
    /\ octave_shifts = 0
    /\ last = [op |-> "new", key |-> "", err |-> "none"]
    /\ written = NoWrite
    /\ held_ticks = EmptyDict
    /\ was_empty = TRUE
    /\ idle_seen = FALSE
    /\ input_open = TRUE
    /\ rpc = "check" /\ todo = {} /\ chunk = {} /\ krel = ""
    /\ pid = EmptyDict /\ rid = EmptyDict /\ next_id = 0

\* the call Instrument(...): __init__ runs on the arguments
construct ==
    /\ last.op = "new"
    /\ last' = [op |-> "init", key |-> "", err |-> init_error(args)]
    /\ IF init_error(args) = "none"
       THEN /\ attack' = args.attack
            /\ release' = args.release
            /\ sample_rate' = args.sample_rate
            /\ chunk_size' = args.chunk_size
            /\ n_release_samples' = args.release * args.sample_rate
            /\ n_attack_samples' =
                  IF args.release * args.sample_rate = 0 THEN 1
                  ELSE IF args.attack * args.sample_rate = 0 THEN 1
                  ELSE args.attack * args.sample_rate
            /\ octave' = OctUnit
       ELSE UNCHANGED <<cfgvars, octave>>
    /\ UNCHANGED <<time_offset, pressed_keys, releasing_keys, octave_shifts, written,
                   history, aux>>

NextCtor == construct

SpecCtor == InitCtor /\ [][NextCtor]_vars

\* ------------------------------------------------------------ properties
\* the step just taken was the call op(k)
Called(op, k) == last'.op = op /\ last'.key = k

\* every voice other than k's is the same in both registries
OthersUnchanged(k) ==
    /\ DOMAIN pressed_keys' \ {k} = DOMAIN pressed_keys \ {k}
    /\ DOMAIN releasing_keys' \ {k} = DOMAIN releasing_keys \ {k}
    /\ \A j \in DOMAIN pressed_keys \ {k} : pressed_keys'[j] = pressed_keys[j]
    /\ \A j \in DOMAIN releasing_keys \ {k} : releasing_keys'[j] = releasing_keys[j]

\* C1: key_press of a note symbol leaves exactly one attacking voice for it,
\* with fundamental = octave x base frequency and amplitude 0 (also when the
\* symbol was attacking already); its releasing entry and every other
\* symbol's voices are as before.
C1_KeyDownCreatesVoice ==
    [][\A k \in Keys :
          (Called("key_press", k) /\ k \in DOMAIN NoteTable) =>
             /\ k \in DOMAIN pressed_keys'
             /\ pressed_keys'[k].fundamental = octave * NoteTable[k]
             /\ pressed_keys'[k].amp = 0
             /\ releasing_keys' = releasing_keys
             /\ OthersUnchanged(k)]_vars

\* a voice for "a" has just been created at a shifted octave while "h" is
\* attacking part-way and "a" itself is still releasing
C1_Witness ==
    /\ last = [op |-> "key_press", key |-> "a", err |-> "none"]
    /\ octave # OctUnit
    /\ "a" \in DOMAIN pressed_keys /\ pressed_keys["a"].amp = 0
    /\ "h" \in DOMAIN pressed_keys /\ pressed_keys["h"].amp > 0
    /\ "a" \in DOMAIN releasing_keys

\* C2: key_release of a symbol that is attacking removes it from pressed_keys
\* and stores in releasing_keys a voice with the same fundamental and the
\* amplitude the attacking voice had: no jump at the transition.
C2_KeyUpContinuity ==
    [][\A k \in Keys :
          (Called("key_release", k) /\ k \in DOMAIN pressed_keys) =>
             /\ k \notin DOMAIN pressed_keys'
             /\ k \in DOMAIN releasing_keys'
             /\ releasing_keys'[k].fundamental = pressed_keys[k].fundamental
             /\ releasing_keys'[k].amp = pressed_keys[k].amp]_vars

\* "a" has just been released part-way through its attack
C2_Witness ==
    /\ last = [op |-> "key_release", key |-> "a", err |-> "none"]
    /\ "a" \in DOMAIN releasing_keys /\ "a" \notin DOMAIN pressed_keys
    /\ releasing_keys["a"].amp > 0 /\ releasing_keys["a"].amp < AmpOne

\* C3: key_release of a note symbol that is not attacking is a no-op: no
\* error, both registries unchanged.
C3_KeyUpAbsentIsNoOp ==
    [][\A k \in Keys :
          (Called("key_release", k) /\ k \in DOMAIN NoteTable /\ k \notin DOMAIN pressed_keys) =>
             /\ last'.err = "none"
             /\ UNCHANGED <<pressed_keys, releasing_keys>>]_vars

\* C4: key_release never changes octave.
C4_KeyUpKeepsOctave ==
    [][last'.op = "key_release" => octave' = octave]_vars

\* C5: key_press of a symbol without a frequency (unmapped or an octave
\* control) raises no error and leaves both registries unchanged.
C5_KeyDownUnmappedIsNoOp ==
    [][\A k \in Keys :
          (Called("key_press", k) /\ k \notin DOMAIN NoteTable) =>
             /\ last'.err = "none"
             /\ UNCHANGED <<pressed_keys, releasing_keys>>]_vars

\* the amplitudes stored in a registry
Amps(d) == {d[k].amp : k \in DOMAIN d}

\* the configuration is valid: positive durations, rate and buffer length
ValidConfig == attack > 0 /\ release > 0 /\ sample_rate > 0 /\ chunk_size > 0

\* C6: (already in a valid configuration) every stored envelope amplitude,
\* attacking or releasing, is in [0,1].
C6_AmplitudeInUnitInterval ==
    ValidConfig =>
       \A a \in Amps(pressed_keys) \cup Amps(releasing_keys) : 0 <= a /\ a <= AmpOne

\* ceil(a / b) for a >= 0, b > 0
CeilDiv(a, b) == (a + b - 1) \div b

\* ceil(attack_seconds x sample_rate / buffer_length)
AttackTicks == CeilDiv(attack * sample_rate, chunk_size)

C8_ReleaseRemovedOnZeroTick ==
    [][(ValidConfig /\ last'.op = "render") =>
          \A k \in DOMAIN releasing_keys \cap DOMAIN releasing_keys' :
             /\ releasing_keys'[k].amp > 0
             /\ releasing_keys'[k].amp <= releasing_keys[k].amp]_vars

\* C9 as stated: no symbol is in both registries at once (a symbol enters
\* releasing_keys only through key_release, so every state with a symbol in
\* releasing_keys comes after a key_release of that symbol).
C9_NeverInBothMaps ==
    \A k \in Keys : ~(k \in DOMAIN pressed_keys /\ k \in DOMAIN releasing_keys)

\* C9 amended: right after key_release of a symbol that symbol is not in
\* pressed_keys, and a symbol enters pressed_keys only through a key_press of
\* that same symbol; so from a key_release until the next key_press of the
\* symbol it is never in both registries.
C9_NotInBothUntilNextKeyDown ==
    [][\A k \in Keys :
          /\ Called("key_release", k) => k \notin DOMAIN pressed_keys'
          /\ (k \notin DOMAIN pressed_keys /\ k \in DOMAIN pressed_keys')
                => Called("key_press", k)]_vars

\* "a" has just been moved to releasing_keys while "h" is still attacking
C9_Witness ==
    /\ last = [op |-> "key_release", key |-> "a", err |-> "none"]
    /\ "a" \in DOMAIN releasing_keys /\ "a" \notin DOMAIN pressed_keys
    /\ "h" \in DOMAIN pressed_keys /\ "h" \in DOMAIN releasing_keys

\* C10 as stated: (already in a valid configuration) a rendered (non-idle)
\* tick that comes after a state with both registries empty starts at
\* time_offset 0.
C10_OffsetZeroAfterEmpty ==
    [][(ValidConfig /\ last'.op = "render" /\ was_empty) => time_offset = 0]_vars

\* C10 amended: a loop iteration that finds both registries empty is idle: it
\* resets time_offset to 0, writes nothing and leaves both registries as they
\* are; and a rendered tick that comes after an idle iteration (whatever key
\* events fell in between) starts at time_offset 0.
C10_IdleResetsOffset ==
    [][/\ (last'.op \in {"idle", "render"} /\ BothEmpty(pressed_keys, releasing_keys))
            => /\ last'.op = "idle"
               /\ time_offset' = 0
               /\ written' = NoWrite
               /\ UNCHANGED <<pressed_keys, releasing_keys>>
       /\ (last'.op = "render" /\ idle_seen) => time_offset = 0]_vars

\* an idle iteration has run and a note was pressed after it: the next loop
\* iteration is a rendered tick, and it starts at offset 0
C10_Witness ==
    /\ idle_seen
    /\ last = [op |-> "key_press", key |-> "h", err |-> "none"]
    /\ "h" \in DOMAIN pressed_keys
    /\ time_offset = 0

\* the contributions of the sustained voices (attacking, at amplitude 1) in a chunk
Sustained(w) == {c \in w : c.reg = "pressed" /\ c.ramp = <<AmpOne, AmpOne>>}

\* C11 as stated: (already in a valid configuration) when two consecutive
\* render ticks both render a sustained voice of one symbol, the time base of
\* the second starts one buffer after the time base of the first: the offset
\* is not reset in between.
C11_PhaseContinuous ==
    [][(ValidConfig /\ last'.op = "render") =>
          \A c \in Sustained(written) : \A d \in Sustained(written') :
             c.key = d.key => d.t0 = c.t0 + chunk_size]_vars

\* C11 amended: the time base of the second tick starts one buffer after the
\* first, unless that start lies above the wrap threshold of 360 s, in which
\* case it restarts at 0 (while the voice keeps sounding); the time base a
\* tick uses is the offset the previous tick left.
C11_PhaseContinuousUpToWrap ==
    [][last'.op = "render" =>
          /\ \A d \in written' : d.t0 = time_offset
          /\ \A c \in Sustained(written) : \A d \in Sustained(written') :
                c.key = d.key =>
                   IF c.t0 + chunk_size > WrapSeconds * sample_rate
                   THEN d.t0 = 0
                   ELSE d.t0 = c.t0 + chunk_size]_vars

\* a voice already at amplitude 1 has just been rendered from time base 0:
\* the offset restarted while the voice was sounding
C11_Witness ==
    /\ ValidConfig
    /\ last.op = "render"
    /\ \E c \in Sustained(written) : c.key = "a" /\ c.t0 = 0

\* C13: (already in a valid configuration) a rendered tick lowers a releasing
\* voice's amplitude by chunk_size / n_release_samples (amplitudes are held
\* over n_attack_samples, hence the cross-multiplication).
C13_ReleaseRateFromReleaseDuration ==
    [][(ValidConfig /\ last'.op = "render") =>
          \A k \in DOMAIN releasing_keys \cap DOMAIN releasing_keys' :
             (releasing_keys[k].amp - releasing_keys'[k].amp) * n_release_samples
                = chunk_size * n_attack_samples]_vars

\* C14: a rendered tick advances time_offset by one buffer and restarts it at
\* 0 when that takes it above 360 s; an idle iteration sets it to 0; no key
\* event changes it; so it always lies within 0 .. 360 s.
C14_OffsetAdvancesAndWraps ==
    [][/\ last'.op = "render" =>
             time_offset' = IF time_offset + chunk_size > WrapSeconds * sample_rate
                            THEN 0 ELSE time_offset + chunk_size
       /\ last'.op \in {"key_press", "key_release"} => time_offset' = time_offset
       /\ 0 <= time_offset' /\ time_offset' <= WrapSeconds * sample_rate]_vars

\* a tick has left the offset exactly on the threshold of 360 s, where it is
\* not restarted
C14_Witness ==
    /\ last.op = "render"
    /\ time_offset = WrapSeconds * sample_rate

\* C15: the fundamental of a voice never changes: a symbol's attacking voice
\* keeps it until a key_press of that symbol replaces the voice, its
\* releasing voice keeps it until a key_release of that symbol replaces the
\* voice, and the voice key_release moves keeps the fundamental it had.
C15_FundamentalFixed ==
    [][\A k \in Keys :
          /\ (k \in DOMAIN pressed_keys /\ k \in DOMAIN pressed_keys'
                 /\ ~Called("key_press", k))
                => pressed_keys'[k].fundamental = pressed_keys[k].fundamental
          /\ (k \in DOMAIN releasing_keys /\ k \in DOMAIN releasing_keys'
                 /\ ~Called("key_release", k))
                => releasing_keys'[k].fundamental = releasing_keys[k].fundamental
          /\ (Called("key_release", k) /\ k \in DOMAIN pressed_keys)
                => releasing_keys'[k].fundamental = pressed_keys[k].fundamental]_vars

\* after an octave change a tick has rendered an attacking and a releasing
\* voice that both still carry the fundamental of the old octave
C15_Witness ==
    /\ last.op = "render"
    /\ octave # OctUnit
    /\ "a" \in DOMAIN pressed_keys
    /\ pressed_keys["a"].fundamental = OctUnit * NoteTable["a"]
    /\ "h" \in DOMAIN releasing_keys
    /\ releasing_keys["h"].fundamental = OctUnit * NoteTable["h"]

\* the gain of the last sample of a ramp: np.linspace(start, end, chunk_size,
\* endpoint=False) stops one sample step short of end
LastGain(ramp) == ramp[2] - (ramp[2] - ramp[1]) \div chunk_size

\* the amplitude stored after the tick for the voice of contribution c
StoredAfter(c) ==
    IF c.reg = "pressed" THEN pressed_keys[c.key].amp ELSE releasing_keys[c.key].amp

\* C19: (already in a valid configuration) the ramp a tick applied to a voice
\* ends at the amplitude stored for that voice after the tick, and the gain
\* stays within [0,1] from the first sample of the buffer to the last.
C19_RampEndsAtStoredAmplitude ==
    (ValidConfig /\ last.op = "render") =>
       \A c \in written :
          /\ c.ramp[2] = StoredAfter(c)
          /\ 0 <= c.ramp[1] /\ c.ramp[1] <= AmpOne
          /\ 0 <= LastGain(c.ramp) /\ LastGain(c.ramp) <= AmpOne

\* C20: once the listener has stopped with the attacking map empty, the
\* render loop eventually removes every releasing voice, and from then on
\* both registries stay empty and the offset stays 0.
C20_ReleasesDrain ==
    (~input_open /\ pressed_keys = EmptyDict)
       ~> [](BothEmpty(pressed_keys, releasing_keys) /\ time_offset = 0)

\* the listener has stopped, nothing is attacking, and a tick has just
\* brought the last releasing voice to silence: the next tick removes it
C20_Witness ==
    /\ ~input_open
    /\ pressed_keys = EmptyDict
    /\ last.op = "render"
    /\ time_offset > 0
    /\ "a" \in DOMAIN releasing_keys
    /\ releasing_keys["a"].amp <= 0

\* C16: (already in a valid configuration) no step of the render loop reads or advances the attacking voice of
\* a key while key_release of that key is between its copy (line 164) and
\* its removal (line 165).
C16_KeyUpAtomicForRender ==
    [][~(/\ ValidConfig
         /\ krel # ""
         /\ last'.op = "render_pressed"
         /\ last'.key = krel
         /\ last'.err = "none")]_vars

\* C17: (already in a valid configuration) within one render tick no note is
\* summed into the chunk, and has its amplitude advanced, twice.
C17_RenderedOncePerTick ==
    ValidConfig => \A c \in chunk : \A d \in chunk : c.id = d.id => c = d

Defective(a) ==
    \/ a.amps_given /\ Len(a.amps) # Len(a.harmonics)
    \/ a.sample_rate <= 0
    \/ a.chunk_size <= 0
    \/ a.attack <= 0
    \/ a.release <= 0

\* C12: construction fails exactly for the defective arguments: mismatched
\* harmonics/amps lengths, or a non-positive rate, buffer length, attack or
\* release; it succeeds otherwise, also with amps omitted.
C12_ConstructionFailsFast ==
    last.op = "init" => (last.err # "none" <=> Defective(args))

TypeOK ==
    /\ DOMAIN pressed_keys \subseteq Keys
    /\ DOMAIN releasing_keys \subseteq Keys
    /\ octave_shifts \in 0..MaxOctaveShifts
    /\ time_offset >= 0
====
